---- MODULE Spec2Model ----
(***************************************************************************)
(* RainWarning (i1_met_nowcast_alarm.py): an AppDaemon app that reads a    *)
(* MET.NO nowcast attribute and the door/window sensors and notifies the   *)
(* configured persons when rain is expected while something is open.       *)
(*                                                                         *)
(* Time is in whole seconds.  Precipitation amounts are in tenths of a     *)
(* millimetre (0.5 mm is 5).  Python's None is NoTime for an instant and   *)
(* NoneStr for a string.                                                   *)
(***************************************************************************)
EXTENDS Integers, Sequences, FiniteSets, TLC

VARIABLES
    pc,                     \* "constructed", then "running" or "inert" once initialize returned
    args,                   \* self.args: the configuration the host supplies
    nowcast_sensor,         \* self.nowcast_sensor
    door_sensors,           \* self.door_sensors
    persons,                \* self.persons: the "notify" value of each person, in order
    last_notification_time, \* self.last_notification_time
    listeners,              \* the listen_state registrations, in registration order
    timer_next,             \* next run of the run_every registration, NoTime when there is none
    config_errors,          \* number of configuration errors logged by initialize
    log_dir_error,          \* TRUE when ensure_log_directory logged an error
    clock,                  \* the UTC clock, datetime.now(timezone.utc)
    last_sent_at,           \* per notify service: instant of the evaluation that last sent to it
    sensor_state,           \* the host's state of each door sensor, where the model follows it
    callbacks,              \* the listen_state callbacks the host has queued and not yet run
    last                    \* record of the most recent run of check_rain_forecast

vars == <<pc, args, nowcast_sensor, door_sensors, persons, last_notification_time,
          listeners, timer_next, config_errors, log_dir_error, clock, last_sent_at,
          sensor_state, callbacks, last>>

----------------------------------------------------------------------------
(* Program constants *)

\* self.notification_cooldown = 180
notification_cooldown == 180
\* threshold_time = now + timedelta(minutes=30)
ThresholdSeconds == 1800
\* self.run_every(self.check_rain_forecast, "now", 5 * 60)
TimerInterval == 300

NoTime == -1
\* an attribute initialize has not assigned yet
Unset == -2
NoneStr == "None"

----------------------------------------------------------------------------
(* Bounds of the model *)

\* the clock runs from 0 to MaxClock
MaxClock == 240
\* longest forecast array of the full forecast set
MaxPoints == 2
\* most listen_state callbacks queued at once
MaxQueue == 2

\* the instants the clock takes: 0, 60, 179, 180, 240, ...
Times == {t \in 0..MaxClock : t % 180 \in {0, 60, 179}}

----------------------------------------------------------------------------
(* The forecast attribute and its points *)

\* A "datetime" field: fmt "missing" (absent or empty), "bad" (not ISO-8601),
\* "naive" (no UTC offset), "Z", "+00:00" or "+01:00"; t is the wall-clock
\* reading of the string in seconds.
\* A "precipitation" field: pk "missing", "num" (amount p) or "bad" (not a number).
Point(fmt, t, pk, p) == [fmt |-> fmt, t |-> t, pk |-> pk, p |-> p]

\* wall-clock readings used in forecast points
PointTimes == {30, 300, 1800, 1859, 2100}

TimedPoints ==
    {Point(f, t, "num", p) : f \in {"Z", "+00:00"}, t \in PointTimes, p \in {0, 5}}

OddPoints ==
    { Point("missing", 0, "num", 5), Point("bad", 0, "num", 5),
      Point("naive", 300, "num", 5), Point("+01:00", 3900, "num", 5),
      Point("Z", 300, "missing", 0), Point("Z", 300, "bad", 0) }

Points == TimedPoints \cup OddPoints

SeqsUpTo(S, n) == UNION {[1..k -> S] : k \in 0..n}

\* The value of get_state(nowcast_sensor, attribute="forecast_json"):
\* kind "none" (None), "empty" (""), "malformed" (not JSON) or "list".
Attr(kind, points) == [kind |-> kind, points |-> points]

BadAttrs == {Attr("none", <<>>), Attr("empty", <<>>), Attr("malformed", <<>>)}

AllForecasts == BadAttrs \cup {Attr("list", s) : s \in SeqsUpTo(Points, MaxPoints)}

\* the forecasts of the full application model
CoreForecasts ==
    BadAttrs \cup
    { Attr("list", <<>>),
      Attr("list", <<Point("Z", 300, "num", 5)>>),
      Attr("list", <<Point("Z", 2100, "num", 5)>>),
      Attr("list", <<Point("Z", 300, "num", 0), Point("+00:00", 1800, "num", 5)>>),
      Attr("list", <<Point("bad", 0, "num", 5)>>) }

----------------------------------------------------------------------------
(* datetime.fromisoformat(forecast["datetime"].replace("Z", "+00:00")) *)

\* the UTC offset a format carries once "Z" is replaced by "+00:00"
OffsetOf(fmt) ==
    CASE fmt = "Z" -> 0
      [] fmt = "+00:00" -> 0
      [] fmt = "+01:00" -> 3600

\* [ok, aware, t]: ok FALSE when fromisoformat raises ValueError;
\* aware FALSE for a naive datetime; t the instant (aware) or the reading (naive)
ParseDatetime(pt) ==
    CASE pt.fmt = "bad" -> [ok |-> FALSE, aware |-> FALSE, t |-> 0]
      [] pt.fmt = "naive" -> [ok |-> TRUE, aware |-> FALSE, t |-> pt.t]
      [] OTHER -> [ok |-> TRUE, aware |-> TRUE, t |-> pt.t - OffsetOf(pt.fmt)]

\* forecast.get("precipitation", 0) > 0; "error" when the comparison raises TypeError
PrecipitationPositive_KeyError(pt) ==
    CASE pt.pk = "missing" -> "error"
      [] pt.pk = "bad" -> "error"
      [] OTHER -> IF pt.p > 0 THEN "true" ELSE "false"
PrecipitationPositive(pt) ==
    CASE pt.pk = "missing" -> "false"
      [] pt.pk = "bad" -> "error"
      [] OTHER -> IF pt.p > 0 THEN "true" ELSE "false"

\* int((forecast_time - now).total_seconds() / 60), for forecast_time >= now
RainMinutes_Seconds(forecast_time, now) == forecast_time - now
RainMinutes(forecast_time, now) == (forecast_time - now) \div 60

\* forecast_time > threshold_time, with threshold_time = now + timedelta(minutes=30)
BeyondThreshold_Hour(t, now) == t > now + 2 * ThresholdSeconds
BeyondThreshold(t, now) == t > now + ThresholdSeconds

ScanResult(status, minutes, idx) == [status |-> status, minutes |-> minutes, idx |-> idx]

\* the for loop over forecast_data from index i on:
\* status "found", "none" or "error"; idx the point it stopped at (0: ran off the end)
RECURSIVE ScanFrom(_, _, _)
\* the loop going on past a point beyond the threshold
ScanFrom_NoBreak(points, i, now) ==
    IF i > Len(points) THEN ScanResult("none", 0, 0)
    ELSE LET pt == points[i]
             d == ParseDatetime(pt)
         IN  IF pt.fmt = "missing" THEN ScanFrom(points, i + 1, now)
             ELSE IF ~d.ok THEN ScanResult("error", 0, i)
             ELSE IF ~d.aware THEN ScanResult("error", 0, i)
             ELSE IF BeyondThreshold(d.t, now) THEN ScanFrom(points, i + 1, now)
             ELSE IF d.t >= now /\ PrecipitationPositive(pt) = "error"
                  THEN ScanResult("error", 0, i)
             ELSE IF d.t >= now /\ PrecipitationPositive(pt) = "true"
                  THEN ScanResult("found", RainMinutes(d.t, now), i)
             ELSE ScanFrom(points, i + 1, now)
ScanFrom(points, i, now) ==
    IF i > Len(points) THEN ScanResult("none", 0, 0)
    ELSE LET pt == points[i]
             d == ParseDatetime(pt)
         IN  IF pt.fmt = "missing" THEN ScanFrom(points, i + 1, now)
             ELSE IF ~d.ok THEN ScanResult("error", 0, i)
             ELSE IF ~d.aware THEN ScanResult("error", 0, i)
             ELSE IF BeyondThreshold(d.t, now) THEN ScanResult("none", 0, i)
             ELSE IF d.t >= now /\ PrecipitationPositive(pt) = "error"
                  THEN ScanResult("error", 0, i)
             ELSE IF d.t >= now /\ PrecipitationPositive(pt) = "true"
                  THEN ScanResult("found", RainMinutes(d.t, now), i)
             ELSE ScanFrom(points, i + 1, now)

ScanForecast(points, now) == ScanFrom(points, 1, now)

----------------------------------------------------------------------------
(* check_rain_forecast, step by step *)

\* if entity and new != "on": return
SkipClosed_AnyTrigger(entity, new) == new # "on"
SkipClosed(entity, new) == entity # NoneStr /\ new # "on"

\* if not nowcast_state: return
AttrMissing_NoneOnly(attr) == attr.kind = "none"
AttrMissing(attr) == attr.kind \in {"none", "empty"}

\* json.loads(nowcast_state) raises on anything that is not JSON text
JsonLoadsFails(attr) == attr.kind # "list"

\* door_states[sensor] = self.get_state(sensor), for every sensor in order
ReadDoors(sensors, reads) == [i \in 1..Len(sensors) |-> reads[i]]

\* doors_open: some state read is "on"
DoorsOpen_Always(states) == TRUE
DoorsOpen(states) == \E i \in 1..Len(states) : states[i] = "on"

\* last_notification_time is None or (now - last).total_seconds() >= cooldown
CooldownPassed_FirstOnly(lnt, now) == lnt = NoTime
CooldownPassed_OffByOne(lnt, now) ==
    lnt = NoTime \/ now - lnt >= notification_cooldown - 1
CooldownPassed_Strict(lnt, now) ==
    lnt = NoTime \/ now - lnt > notification_cooldown
CooldownPassed(lnt, now) ==
    lnt = NoTime \/ now - lnt >= notification_cooldown

Message(service, minutes) == [service |-> service, minutes |-> minutes]

\* the for loop over self.persons from index i on; call_service raises at
\* person fail_at (0: never).  [sent, failed]
RECURSIVE SendFrom(_, _, _, _)
\* the loop ending at the first person without a notify service
SendFrom_BreakOnMissing(ps, i, minutes, fail_at) ==
    IF i > Len(ps) THEN [sent |-> <<>>, failed |-> FALSE]
    ELSE IF ps[i] = NoneStr THEN [sent |-> <<>>, failed |-> FALSE]
    ELSE IF i = fail_at THEN [sent |-> <<>>, failed |-> TRUE]
    ELSE LET rest == SendFrom(ps, i + 1, minutes, fail_at)
         IN  [sent |-> <<Message(ps[i], minutes)>> \o rest.sent, failed |-> rest.failed]
SendFrom(ps, i, minutes, fail_at) ==
    IF i > Len(ps) THEN [sent |-> <<>>, failed |-> FALSE]
    ELSE IF ps[i] = NoneStr THEN SendFrom(ps, i + 1, minutes, fail_at)
    ELSE IF i = fail_at THEN [sent |-> <<>>, failed |-> TRUE]
    ELSE LET rest == SendFrom(ps, i + 1, minutes, fail_at)
         IN  [sent |-> <<Message(ps[i], minutes)>> \o rest.sent, failed |-> rest.failed]

SendAll(ps, minutes, fail_at) == SendFrom(ps, 1, minutes, fail_at)

\* one label per call_service that returned
SendLabels(n) == [i \in 1..n |-> "send"]

\* one label per get_state(sensor)
DoorLabels(n) == [i \in 1..n |-> "get_door"]

\* log_notification_debug: everything it does is inside its own try/except, so a
\* failure is logged there ("failed") and never raised to the caller ("raised")
LogNotificationDebug_Uncaught(debug_fail) == IF debug_fail THEN "raised" ELSE "written"
LogNotificationDebug(debug_fail) == IF debug_fail THEN "failed" ELSE "written"

Outcome(exit, scan, states, debug, sent, lnt, err, trace) ==
    [ exit |-> exit,
      rain_found |-> scan.status = "found",
      rain_minutes |-> scan.minutes,
      scan_idx |-> scan.idx,
      door_states |-> states,
      doors_open |-> DoorsOpen(states),
      debug |-> debug,
      sent |-> sent,
      lnt |-> lnt,
      error_logged |-> err,
      trace |-> trace ]

NoScan == ScanResult("none", 0, 0)

\* the dispatch branch with the cooldown recorded before the sends
Dispatch_SetFirst(scan, states, debug_fail, fail_at, now, lnt, ps, trace) ==
    LET debug == LogNotificationDebug(debug_fail)
        s == SendAll(ps, scan.minutes, fail_at)
        t == trace \o <<"debug_log", "set_last">> \o SendLabels(Len(s.sent))
    IN  IF s.failed
        THEN Outcome("error", scan, states, debug, s.sent, now, TRUE,
                     t \o <<"send_failed", "log_error">>)
        ELSE Outcome("dispatched", scan, states, debug, s.sent, now, FALSE, t)

\* the dispatch branch with the debug log written after the sends
Dispatch_LogAfter(scan, states, debug_fail, fail_at, now, lnt, ps, trace) ==
    LET debug == LogNotificationDebug(debug_fail)
        s == SendAll(ps, scan.minutes, fail_at)
        t == trace \o SendLabels(Len(s.sent))
    IN  IF s.failed
        THEN Outcome("error", scan, states, "none", s.sent, lnt, TRUE,
                     t \o <<"send_failed", "log_error">>)
        ELSE Outcome("dispatched", scan, states, debug, s.sent, now, FALSE,
                     t \o <<"debug_log", "set_last">>)

\* the dispatch branch: debug log, sends, self.last_notification_time = now;
\* an exception raised in it goes to the except clause of check_rain_forecast
Dispatch(scan, states, debug_fail, fail_at, now, lnt, ps, trace) ==
    LET debug == LogNotificationDebug(debug_fail)
        s == SendAll(ps, scan.minutes, fail_at)
        t == trace \o <<"debug_log">> \o SendLabels(Len(s.sent))
    IN  IF debug = "raised"
        THEN Outcome("error", scan, states, debug, <<>>, lnt, TRUE,
                     trace \o <<"debug_log", "log_error">>)
        ELSE IF s.failed
        THEN Outcome("error", scan, states, debug, s.sent, lnt, TRUE,
                     t \o <<"send_failed", "log_error">>)
        ELSE Outcome("dispatched", scan, states, debug, s.sent, now, FALSE,
                     t \o <<"set_last">>)

\* the whole of check_rain_forecast on the inputs it reads
CheckRainForecast(entity, new, attr, reads, debug_fail, fail_at, now, lnt, sensors, ps) ==
    IF SkipClosed(entity, new)
    THEN Outcome("closed", NoScan, <<>>, "none", <<>>, lnt, FALSE, <<>>)
    ELSE IF AttrMissing(attr)
    THEN Outcome("no_forecast", NoScan, <<>>, "none", <<>>, lnt, FALSE, <<"get_forecast">>)
    ELSE IF JsonLoadsFails(attr)
    THEN Outcome("error", NoScan, <<>>, "none", <<>>, lnt, TRUE,
                 <<"get_forecast", "log_error">>)
    ELSE LET scan == ScanForecast(attr.points, now)
             t1 == <<"get_forecast", "scan">>
         IN  IF scan.status = "error"
             THEN Outcome("error", scan, <<>>, "none", <<>>, lnt, TRUE, t1 \o <<"log_error">>)
             ELSE IF scan.status # "found"
             THEN Outcome("no_rain", scan, <<>>, "none", <<>>, lnt, FALSE, t1)
             ELSE LET states == ReadDoors(sensors, reads)
                      t2 == t1 \o DoorLabels(Len(states))
                  IN  IF ~DoorsOpen(states)
                      THEN Outcome("no_doors", scan, states, "none", <<>>, lnt, FALSE, t2)
                      ELSE IF ~CooldownPassed(lnt, now)
                      THEN Outcome("cooldown", scan, states, "none", <<>>, lnt, FALSE,
                                   t2 \o <<"gate">>)
                      ELSE Dispatch(scan, states, debug_fail, fail_at, now, lnt, ps,
                                    t2 \o <<"gate">>)

----------------------------------------------------------------------------
(* The application: configuration, registrations, triggers *)

Config(nowcast, sensors, ps) ==
    [nowcast_sensor |-> nowcast, door_window_sensors |-> sensors, persons |-> ps]

\* configurations the host may supply: two complete ones, and one with each
\* required entry missing or empty
ValidArgs ==
    { Config("sensor.nowcast", <<"d1", "d2">>, <<"a", NoneStr, "b">>),
      Config("sensor.nowcast", <<"d1">>, <<"a">>) }

InvalidArgs ==
    { Config(NoneStr, <<"d1">>, <<"a">>),
      Config("sensor.nowcast", <<>>, <<"a">>),
      Config("sensor.nowcast", <<"d1">>, <<>>) }

Services == {"a", "b"}

\* states a door/window sensor reports
SensorStates == {"on", "off"}

\* not all([self.nowcast_sensor, self.door_sensors, self.persons])
ConfigMissing_All(cfg) ==
    cfg.nowcast_sensor = NoneStr /\ cfg.door_window_sensors = <<>> /\ cfg.persons = <<>>
ConfigMissing(cfg) ==
    cfg.nowcast_sensor = NoneStr \/ cfg.door_window_sensors = <<>> \/ cfg.persons = <<>>

\* no sensor is followed: every event and every state read is an input of its run
NoSensors == [d \in {} |-> NoneStr]

NoEval ==
    [ kind |-> "none", entity |-> NoneStr, new |-> NoneStr, now |-> 0,
      lnt_before |-> NoTime, attr |-> Attr("none", <<>>),
      out |-> Outcome("none", NoScan, <<>>, "none", <<>>, NoTime, FALSE, <<>>) ]

Init ==
    /\ pc = "constructed"
    /\ args \in ValidArgs \cup InvalidArgs
    /\ nowcast_sensor = NoneStr
    /\ door_sensors = <<>>
    /\ persons = <<>>
    /\ last_notification_time = Unset
    /\ listeners = <<>>
    /\ timer_next = NoTime
    /\ config_errors = 0
    /\ log_dir_error = FALSE
    /\ clock = 0
    /\ last_sent_at = [s \in Services |-> NoTime]
    /\ sensor_state = NoSensors
    /\ callbacks = <<>>
    /\ last = NoEval

\* the listen_state calls of initialize: one registration per entry of door_sensors
RegisterListeners(sensors) == sensors

\* ensure_log_directory: a failure of os.makedirs is caught and logged there
EnsureLogDirectory(dir_fail) == IF dir_fail THEN "failed" ELSE "ok"

\* initialize; dir_fail: os.makedirs raises in ensure_log_directory
initialize(dir_fail) ==
    /\ pc = "constructed"
    /\ nowcast_sensor' = args.nowcast_sensor
    /\ door_sensors' = args.door_window_sensors
    /\ persons' = args.persons
    /\ IF ConfigMissing(args)
       THEN /\ config_errors' = config_errors + 1
            /\ pc' = "inert"
            /\ UNCHANGED <<last_notification_time, listeners, timer_next, log_dir_error>>
       ELSE /\ last_notification_time' = NoTime
            /\ log_dir_error' = (EnsureLogDirectory(dir_fail) = "failed")
            /\ listeners' = RegisterListeners(args.door_window_sensors)
            /\ timer_next' = clock
            /\ pc' = "running"
            /\ UNCHANGED config_errors
    /\ UNCHANGED <<args, clock, last_sent_at, sensor_state, callbacks, last>>

\* The inputs one run reads, each drawn only when the run gets to read it
\* (an input the run never reads is fixed: the attribute on a closed event,
\* the sensor states when no rain is found, the failures when nothing is dispatched).
AttrInputs(entity, new, FS) ==
    IF SkipClosed(entity, new) THEN {Attr("none", <<>>)} ELSE FS

AllOff(sensors) == [i \in 1..Len(sensors) |-> "off"]

\* the run gets to the sensor reads
ReachesDoors(entity, new, attr, now) ==
    /\ ~SkipClosed(entity, new)
    /\ attr.kind = "list"
    /\ ScanForecast(attr.points, now).status = "found"

ReadInputs(entity, new, attr, now, sensors) ==
    IF ReachesDoors(entity, new, attr, now)
    THEN [1..Len(sensors) -> SensorStates]
    ELSE {AllOff(sensors)}

\* <<debug_fail, fail_at>>: the debug log fails, call_service raises at person fail_at
FailureInputs(entity, new, attr, reads, now, lnt, ps) ==
    IF ReachesDoors(entity, new, attr, now) /\ DoorsOpen(reads) /\ CooldownPassed(lnt, now)
    THEN BOOLEAN \X ({0} \cup {i \in 1..Len(ps) : ps[i] # NoneStr})
    ELSE {<<FALSE, 0>>}

\* one run of check_rain_forecast at the current clock, reading a forecast of FS
Evaluate(entity, new, FS) ==
    \E attr \in AttrInputs(entity, new, FS) :
    \E reads \in ReadInputs(entity, new, attr, clock, door_sensors) :
    \E f \in FailureInputs(entity, new, attr, reads, clock, last_notification_time, persons) :
        LET out == CheckRainForecast(entity, new, attr, reads, f[1], f[2],
                                     clock, last_notification_time, door_sensors, persons)
        IN  /\ last_notification_time' = out.lnt
            /\ last' = [ kind |-> "eval", entity |-> entity, new |-> new, now |-> clock,
                         lnt_before |-> last_notification_time, attr |-> attr,
                         out |-> out ]
            /\ last_sent_at' =
                 [s \in Services |->
                    IF \E i \in 1..Len(out.sent) : out.sent[i].service = s
                    THEN clock ELSE last_sent_at[s]]

\* the run_every callback: no entity, and the next run one interval later
TimerFire(FS) ==
    /\ timer_next # NoTime
    /\ clock = timer_next
    /\ Evaluate(NoneStr, NoneStr, FS)
    /\ timer_next' = timer_next + TimerInterval
    /\ UNCHANGED <<pc, args, nowcast_sensor, door_sensors, persons, listeners,
                   config_errors, log_dir_error, clock, sensor_state, callbacks>>

\* a listen_state callback: a registered sensor changed to state new
StateChange(FS) ==
    \E i \in 1..Len(listeners), new \in SensorStates :
        /\ Evaluate(listeners[i], new, FS)
        /\ UNCHANGED <<pc, args, nowcast_sensor, door_sensors, persons, listeners,
                       timer_next, config_errors, log_dir_error, clock, sensor_state,
                       callbacks>>

\* time passes, up to the next run of the timer
Tick(TS) ==
    /\ pc # "constructed"
    /\ \E t \in TS :
        /\ t > clock
        /\ timer_next # NoTime => t <= timer_next
        /\ clock' = t
    /\ UNCHANGED <<pc, args, nowcast_sensor, door_sensors, persons, last_notification_time,
                   listeners, timer_next, config_errors, log_dir_error, last_sent_at,
                   sensor_state, callbacks, last>>

Next ==
    \/ \E dir_fail \in BOOLEAN : initialize(dir_fail)
    \/ TimerFire(CoreForecasts)
    \/ StateChange(CoreForecasts)
    \/ Tick(Times)

Spec == Init /\ [][Next]_vars

----------------------------------------------------------------------------
(* One run of check_rain_forecast over the full forecast set: the app is     *)
(* initialized with one sensor and one person, the clock is at one of        *)
(* ScanClocks, and the callback runs once.                                   *)

ScanArgs == Config("sensor.nowcast", <<"d1">>, <<"a">>)

ScanClocks == {0, 59, 60}

InitScan ==
    /\ pc = "running"
    /\ args = ScanArgs
    /\ nowcast_sensor = ScanArgs.nowcast_sensor
    /\ door_sensors = ScanArgs.door_window_sensors
    /\ persons = ScanArgs.persons
    /\ last_notification_time \in {NoTime, 0}
    /\ listeners = RegisterListeners(ScanArgs.door_window_sensors)
    /\ clock \in ScanClocks
    /\ timer_next = clock
    /\ config_errors = 0
    /\ log_dir_error = FALSE
    /\ last_sent_at = [s \in Services |-> IF s = "a" THEN last_notification_time ELSE NoTime]
    /\ sensor_state = NoSensors
    /\ callbacks = <<>>
    /\ last = NoEval

ScanTimer == last.kind = "none" /\ TimerFire(AllForecasts)

ScanEvent == last.kind = "none" /\ StateChange(AllForecasts)

NextScan == ScanTimer \/ ScanEvent

SpecScan == InitScan /\ [][NextScan]_vars

----------------------------------------------------------------------------
(* The app running for ever under its timer.  Only differences of instants   *)
(* matter to check_rain_forecast, so time is kept in a window of two timer   *)
(* periods: the clock runs from TimerInterval to 2 * TimerInterval, and the   *)
(* timer run at the end of the window moves every recorded instant one       *)
(* period back.  An instant that is already a whole period old is kept at 0:  *)
(* it is past the cooldown for every later run either way.                   *)
(*                                                                           *)
(* Here the state of each door sensor is followed.  The host changes a       *)
(* sensor to another state and queues the listen_state callback of that      *)
(* change; the callbacks run later, in the order of the changes, with the    *)
(* timer callback and further changes in between.  get_state returns the     *)
(* state each sensor has when the callback runs, which need not be the state *)
(* the callback carries.                                                     *)

\* instant t seen sh seconds later in the window
Shift(t, sh) ==
    IF t = NoTime THEN NoTime ELSE IF t <= sh THEN 0 ELSE t - sh

ShiftAttr(attr, sh) ==
    [attr EXCEPT !.points = [i \in DOMAIN @ |-> [@[i] EXCEPT !.t = @ - sh]]]

\* the instants of the window
LiveInstants ==
    {TimerInterval + d : d \in {0, 120, 179, 180, TimerInterval}}

\* the forecast attribute at instant now: none, no rain, or rain 5 minutes ahead
LiveForecasts(now) ==
    { Attr("none", <<>>), Attr("list", <<>>),
      Attr("list", <<Point("Z", now + 300, "num", 5)>>) }

\* the states a door sensor takes
LiveStates == {"on", "off", "unavailable"}

\* one door sensor and one person
LiveArgs == Config("sensor.nowcast", <<"d1">>, <<"a">>)

\* get_state of each door sensor, in the order of door_sensors
LiveReads(state, sensors) == [i \in 1..Len(sensors) |-> state[sensors[i]]]

InitLive ==
    /\ pc = "running"
    /\ args = LiveArgs
    /\ nowcast_sensor = LiveArgs.nowcast_sensor
    /\ door_sensors = LiveArgs.door_window_sensors
    /\ persons = LiveArgs.persons
    /\ last_notification_time = NoTime
    /\ listeners = RegisterListeners(LiveArgs.door_window_sensors)
    /\ clock = TimerInterval
    /\ timer_next = clock
    /\ config_errors = 0
    /\ log_dir_error = FALSE
    /\ last_sent_at = [s \in Services |-> NoTime]
    /\ sensor_state \in [{"d1"} -> LiveStates]
    /\ callbacks = <<>>
    /\ last = NoEval

\* a run suppressed by the cooldown has happened since the latest dispatch
Waiting ==
    /\ last.kind = "eval"
    /\ \/ last.out.exit = "cooldown"
       \/ last.waiting /\ last.out.exit # "dispatched"

\* one run of check_rain_forecast at the current clock with the sensors in the
\* states of reads, every instant it leaves behind recorded sh seconds back
LiveEvaluate(entity, new, reads, sh) ==
    \E attr \in AttrInputs(entity, new, LiveForecasts(clock)) :
    \E f \in FailureInputs(entity, new, attr, reads, clock, last_notification_time, persons) :
        LET out == CheckRainForecast(entity, new, attr, reads, f[1], f[2],
                                     clock, last_notification_time, door_sensors, persons)
        IN  /\ last_notification_time' = Shift(out.lnt, sh)
            /\ last' = [ kind |-> "eval", entity |-> entity, new |-> new,
                         now |-> Shift(clock, sh),
                         lnt_before |-> Shift(last_notification_time, sh),
                         attr |-> ShiftAttr(attr, sh),
                         out |-> [out EXCEPT !.lnt = Shift(@, sh)],
                         waiting |-> Waiting ]
            /\ last_sent_at' =
                 [s \in Services |->
                    IF \E i \in 1..Len(out.sent) : out.sent[i].service = s
                    THEN Shift(clock, sh) ELSE Shift(last_sent_at[s], sh)]

\* the run_every callback; at the end of the window the window moves on
LiveTimer ==
    /\ timer_next # NoTime
    /\ clock = timer_next
    /\ LET sh == IF clock >= 2 * TimerInterval THEN TimerInterval ELSE 0
       IN  /\ LiveEvaluate(NoneStr, NoneStr, LiveReads(sensor_state, door_sensors), sh)
           /\ clock' = clock - sh
           /\ timer_next' = timer_next + TimerInterval - sh
    /\ UNCHANGED <<pc, args, nowcast_sensor, door_sensors, persons, listeners,
                   config_errors, log_dir_error, sensor_state, callbacks>>

\* the host: a sensor with a listen_state registration changes to another state, new,
\* and the callback of that change is queued
LiveChange ==
    \E i \in 1..Len(listeners), new \in LiveStates :
        /\ Len(callbacks) < MaxQueue
        /\ new # sensor_state[listeners[i]]
        /\ sensor_state' = [sensor_state EXCEPT ![listeners[i]] = new]
        /\ callbacks' = Append(callbacks, <<listeners[i], new>>)
        /\ UNCHANGED <<pc, args, nowcast_sensor, door_sensors, persons,
                       last_notification_time, listeners, timer_next, config_errors,
                       log_dir_error, clock, last_sent_at, last>>

\* the oldest queued listen_state callback runs
LiveEvent ==
    /\ callbacks # <<>>
    /\ LiveEvaluate(Head(callbacks)[1], Head(callbacks)[2],
                    LiveReads(sensor_state, door_sensors), 0)
    /\ callbacks' = Tail(callbacks)
    /\ UNCHANGED <<pc, args, nowcast_sensor, door_sensors, persons, listeners,
                   timer_next, config_errors, log_dir_error, clock, sensor_state>>

\* time passes, up to the next run of the timer
LiveTick == Tick(LiveInstants)

NextLive == LiveTimer \/ LiveChange \/ LiveEvent \/ LiveTick

\* the host runs a due timer callback and a queued listen_state callback, and time goes on
SpecLive ==
    /\ InitLive /\ [][NextLive]_vars
    /\ WF_vars(LiveTimer) /\ WF_vars(LiveEvent) /\ WF_vars(LiveTick)

----------------------------------------------------------------------------
(* Properties *)

\* a run of check_rain_forecast has happened; last describes the latest one
Evaluated == last.kind = "eval"

\* the latest run found rain and read some sensor as "on"
Qualifying ==
    /\ Evaluated
    /\ last.out.rain_found
    /\ \E i \in DOMAIN last.out.door_states : last.out.door_states[i] = "on"

\* call_service raised in the latest run
DeliveryFailed ==
    Evaluated /\ \E i \in DOMAIN last.out.trace : last.out.trace[i] = "send_failed"

\* the messages a complete dispatch sends: one per person with a notify service, in order
Expected(ps, minutes) ==
    LET chs == SelectSeq(ps, LAMBDA x : x # NoneStr)
    IN  [i \in 1..Len(chs) |-> Message(chs[i], minutes)]

\* C1: a run that finds rain and an open sensor fewer than 180 seconds after the
\* recorded last notification sends nothing and leaves last_notification_time as it was.
C1_CooldownSuppresses ==
    ( /\ Qualifying
      /\ last.lnt_before # NoTime
      /\ last.now - last.lnt_before < 180 )
    => /\ last.out.sent = <<>>
       /\ last_notification_time = last.lnt_before

C1_Witness ==
    /\ Qualifying
    /\ last.lnt_before # NoTime
    /\ last.now - last.lnt_before = 179
    /\ last.out.exit = "cooldown"

\* C2: a run that finds rain and an open sensor when no notification is recorded, or
\* 180 seconds or more after the recorded one, takes the dispatch branch; unless
\* call_service raises it sends every message and records its own now; and every
\* completed dispatch leaves last_notification_time equal to that run's now.
C2_ReadyDispatches ==
    /\ ( /\ Qualifying
         /\ last.lnt_before = NoTime \/ last.now - last.lnt_before >= 180 )
       => /\ last.out.debug # "none"
          /\ ~DeliveryFailed =>
                /\ last.out.exit = "dispatched"
                /\ last.out.sent = Expected(persons, last.out.rain_minutes)
    /\ (Evaluated /\ last.out.exit = "dispatched")
       => last_notification_time = last.now

C2_Witness ==
    /\ Qualifying
    /\ last.lnt_before # NoTime
    /\ last.now - last.lnt_before = 180
    /\ last.out.exit = "dispatched"
    /\ last_notification_time = last.now

\* C3: two messages sent to the same notify service by different runs are at least
\* 180 seconds apart.
C3_MinimumInterval ==
    [][ \A s \in Services :
          (last_sent_at'[s] # last_sent_at[s] /\ last_sent_at[s] # NoTime)
          => last_sent_at'[s] - last_sent_at[s] >= 180 ]_vars

\* the instant a forecast point's "datetime" denotes
PointInstant(pt) == IF pt.fmt = "+01:00" THEN pt.t - 3600 ELSE pt.t

\* a point with precipitation > 0 and a timestamp within [now, now + 30 minutes]
RainInWindow(pt, now) ==
    /\ pt.fmt \in {"Z", "+00:00", "+01:00"}
    /\ pt.pk = "num"
    /\ pt.p > 0
    /\ now <= PointInstant(pt)
    /\ PointInstant(pt) <= now + 30 * 60

\* C4: a run whose forecast has no point with precipitation > 0 and a timestamp
\* within [now, now + 30 minutes] sends nothing.
C4_NoRainNoNotification ==
    ( /\ Evaluated
      /\ \A i \in DOMAIN last.attr.points : ~RainInWindow(last.attr.points[i], last.now) )
    => /\ last.out.sent = <<>>
       /\ last.out.exit # "dispatched"

C4_Witness ==
    /\ Evaluated
    /\ last.now = 0
    /\ last.attr = Attr("list", <<Point("Z", 2100, "num", 5)>>)
    /\ last.out.exit = "no_rain"
    /\ last.out.sent = <<>>

\* C5: a run that finds rain and reads no sensor as "on" sends nothing and leaves
\* last_notification_time as it was.
C5_AllClosedNoNotification ==
    ( /\ Evaluated
      /\ last.out.rain_found
      /\ \A i \in DOMAIN last.out.door_states : last.out.door_states[i] # "on" )
    => /\ last.out.sent = <<>>
       /\ last_notification_time = last.lnt_before

C5_Witness ==
    /\ Evaluated
    /\ last.out.rain_found
    /\ last.entity = "d1"
    /\ last.new = "on"
    /\ last.out.door_states = <<"off", "off">>
    /\ last.lnt_before = NoTime
    /\ last.out.sent = <<>>

\* C6: a run returns before any read exactly when it carries an entity and a new
\* state other than "on"; it then sends nothing; a timer run always reads the forecast.
C6_ClosedTransitionExit ==
    Evaluated =>
        /\ (last.out.trace = <<>>) <=> (last.entity # NoneStr /\ last.new # "on")
        /\ last.out.trace = <<>> =>
              /\ last.out.sent = <<>>
              /\ last_notification_time = last.lnt_before
        /\ last.entity = NoneStr =>
              /\ last.out.trace # <<>>
              /\ last.out.trace[1] = "get_forecast"

C6_Witness ==
    /\ Evaluated
    /\ last.entity = "d2"
    /\ last.new = "off"
    /\ last.out.exit = "closed"
    /\ last.out.trace = <<>>

\* C7: once initialize has returned, an incomplete configuration has logged one
\* error and registered no listener and no timer, and no run ever happens; a complete
\* one has one listener per sensor and a timer of period 300 whose first run is at
\* the instant of initialize, with no notification recorded before the first run.
C7_InitializeRegistration ==
    /\ pc = "constructed" => listeners = <<>> /\ timer_next = NoTime /\ ~Evaluated
    /\ pc # "constructed" =>
        IF \/ args.nowcast_sensor = NoneStr
           \/ Len(args.door_window_sensors) = 0
           \/ Len(args.persons) = 0
        THEN /\ pc = "inert"
             /\ config_errors = 1
             /\ listeners = <<>>
             /\ timer_next = NoTime
             /\ ~Evaluated
             /\ \A s \in Services : last_sent_at[s] = NoTime
        ELSE /\ pc = "running"
             /\ config_errors = 0
             /\ listeners = args.door_window_sensors
             /\ timer_next # NoTime
             /\ timer_next % 300 = 0
             /\ ~Evaluated => timer_next = 0 /\ last_notification_time = NoTime

C7_Witness ==
    /\ pc = "inert"
    /\ args.persons = <<>>
    /\ config_errors = 1
    /\ clock > 0

\* C8: a run that ends in the except clause has logged the error and left the app as
\* it was: last_notification_time, the listeners and the timer are those of before.
C8_FailureIsContained ==
    (Evaluated /\ last.out.exit = "error")
    => /\ last.out.error_logged
       /\ last_notification_time = last.lnt_before
       /\ pc = "running"
       /\ listeners = door_sensors
       /\ timer_next # NoTime
       /\ door_sensors = args.door_window_sensors
       /\ persons = args.persons

C8_Witness ==
    /\ DeliveryFailed
    /\ last.out.exit = "error"
    /\ last.lnt_before # NoTime
    /\ last.out.sent # <<>>

\* C9: a run that ends in the except clause has sent no message.
C9_ErrorSendsNothing ==
    (Evaluated /\ last.out.exit = "error") => last.out.sent = <<>>

\* C10: when the debug log fails in a run that passed the cooldown gate, the run
\* still sends every message and records its now, unless call_service raises; and an
\* initialize whose log directory could not be created has registered everything.
C10_DebugLogBestEffort ==
    /\ ( /\ Qualifying
         /\ last.lnt_before = NoTime \/ last.now - last.lnt_before >= 180
         /\ last.out.debug # "written"
         /\ ~DeliveryFailed )
       => /\ last.out.exit = "dispatched"
          /\ last.out.sent = Expected(persons, last.out.rain_minutes)
          /\ last_notification_time = last.now
    /\ log_dir_error =>
          /\ pc = "running"
          /\ listeners = args.door_window_sensors
          /\ timer_next # NoTime

C10_Witness ==
    /\ log_dir_error
    /\ Evaluated
    /\ last.out.debug = "failed"
    /\ last.out.exit = "dispatched"
    /\ Len(last.out.sent) = 2


\* C11: a run that dispatches sends exactly one message per person with a notify
\* service, in configuration order and all with the run's rain_minutes, logs no
\* error, and records last_notification_time after the last send.
C11_DispatchSendsAll ==
    (Evaluated /\ last.out.exit = "dispatched")
    => /\ last.out.sent = Expected(persons, last.out.rain_minutes)
       /\ ~last.out.error_logged
       /\ last.out.trace[Len(last.out.trace)] = "set_last"
       /\ \A i \in DOMAIN last.out.trace :
             last.out.trace[i] = "set_last" => i = Len(last.out.trace)
       /\ Cardinality({i \in DOMAIN last.out.trace : last.out.trace[i] = "send"})
             = Len(last.out.sent)
       /\ last_notification_time = last.now

C11_Witness ==
    /\ Evaluated
    /\ last.out.exit = "dispatched"
    /\ persons = <<"a", NoneStr, "b">>
    /\ last.out.sent = <<Message("a", 5), Message("b", 5)>>

\* C12 as stated: a run that reads a missing, empty or unparseable forecast
\* attribute sends nothing and logs no error.
C12_TransientDataErrorIsSilent ==
    ( /\ Evaluated
      /\ last.out.trace # <<>>
      /\ last.attr.kind \in {"none", "empty", "malformed"} )
    => /\ last.out.sent = <<>>
       /\ ~last.out.error_logged

\* C12 as amended: a missing or empty forecast attribute ends the run right after
\* the read, with nothing sent and no error logged; an unparseable one sends
\* nothing either, but ends in the except clause, which logs an error.
C12_MissingForecastIsSilent ==
    (Evaluated /\ last.out.trace # <<>>)
    => /\ last.attr.kind \in {"none", "empty"} =>
             /\ last.out.exit = "no_forecast"
             /\ last.out.trace = <<"get_forecast">>
             /\ last.out.sent = <<>>
             /\ ~last.out.error_logged
       /\ last.attr.kind = "malformed" =>
             /\ last.out.exit = "error"
             /\ last.out.sent = <<>>
             /\ last.out.error_logged

C12_Witness ==
    /\ Evaluated
    /\ last.entity = NoneStr
    /\ last.attr.kind = "empty"
    /\ last.out.exit = "no_forecast"


\* the latest run got to the rain scan
Scanned == Evaluated /\ Len(last.out.trace) >= 2 /\ last.out.trace[2] = "scan"

\* every point has a readable or no timestamp and a numeric or no precipitation
WellFormed(points) ==
    \A i \in DOMAIN points :
        /\ points[i].fmt \in {"missing", "Z", "+00:00", "+01:00"}
        /\ points[i].pk \in {"num", "missing"}

HasTime(pt) == pt.fmt # "missing"

Least(S) == CHOOSE x \in S : \A y \in S : x <= y

\* the reference scan: the index of the first point after now + 30 minutes
\* (one past the end when there is none) ...
RefStop(points, now) ==
    LET beyond == {i \in DOMAIN points :
                     HasTime(points[i]) /\ PointInstant(points[i]) > now + 30 * 60}
    IN  IF beyond = {} THEN Len(points) + 1 ELSE Least(beyond)

\* ... and the points before it with a timestamp >= now and precipitation > 0
RefMatches(points, now) ==
    {i \in 1..(RefStop(points, now) - 1) :
        /\ HasTime(points[i])
        /\ PointInstant(points[i]) >= now
        /\ points[i].pk = "num"
        /\ points[i].p > 0}

\* C13: on every forecast of well-formed points, ordered or not, the scan finds rain
\* exactly when the reference has a match, the match is the reference's first one,
\* and rain_minutes is the whole minutes from now to it, rounded down; a point 5
\* minutes ahead with precipitation 0.5 gives 5.
C13_ScanEqualsReference ==
    /\ (Scanned /\ WellFormed(last.attr.points)) =>
         LET ms == RefMatches(last.attr.points, last.now)
         IN  /\ last.out.rain_found <=> ms # {}
             /\ ms # {} =>
                  LET d == PointInstant(last.attr.points[Least(ms)]) - last.now
                  IN  /\ last.out.scan_idx = Least(ms)
                      /\ 60 * last.out.rain_minutes <= d
                      /\ d < 60 * (last.out.rain_minutes + 1)
    /\ (Scanned /\ last.now = 0 /\ last.attr.points = <<Point("Z", 300, "num", 5)>>)
       => last.out.rain_found /\ last.out.rain_minutes = 5

C13_Witness ==
    /\ Scanned
    /\ last.now = 0
    /\ last.attr.points = <<Point("Z", 2100, "num", 5), Point("Z", 300, "num", 5)>>
    /\ ~last.out.rain_found
    /\ last.out.exit = "no_rain"

\* a point that lacks a timestamp, lacks a precipitation amount, has precipitation
\* 0, or has a timestamp before now
NotQualifying(pt, now) ==
    \/ pt.fmt = "missing"
    \/ /\ pt.fmt \in {"Z", "+00:00", "+01:00"}
       /\ \/ pt.pk = "missing"
          \/ pt.pk = "num" /\ pt.p = 0
          \/ PointInstant(pt) < now

\* the scan went past the first point, matched the second, and the run can notify
SecondPointMatched ==
    /\ last.out.rain_found
    /\ last.out.scan_idx = 2
    /\ last.out.exit = "error" => DeliveryFailed
    /\ ( /\ Qualifying
         /\ last.lnt_before = NoTime \/ last.now - last.lnt_before >= 180
         /\ ~DeliveryFailed )
       => last.out.exit = "dispatched" /\ last.out.sent # <<>>

\* C14 as stated: after any point that does not qualify for one of the four reasons,
\* a qualifying second point is still matched, without an error.
C14_NotQualifyingIsSkipped ==
    ( /\ Scanned
      /\ Len(last.attr.points) = 2
      /\ NotQualifying(last.attr.points[1], last.now)
      /\ RainInWindow(last.attr.points[2], last.now) )
    => SecondPointMatched

\* C14 as amended: the same, for a first point that has no timestamp or whose
\* timestamp is not after now + 30 minutes.
C14_SkippedWithinThreshold ==
    ( /\ Scanned
      /\ Len(last.attr.points) = 2
      /\ NotQualifying(last.attr.points[1], last.now)
      /\ \/ last.attr.points[1].fmt = "missing"
         \/ PointInstant(last.attr.points[1]) <= last.now + 30 * 60
      /\ RainInWindow(last.attr.points[2], last.now) )
    => SecondPointMatched

C14_Witness ==
    /\ Scanned
    /\ last.attr.points = <<Point("Z", 300, "missing", 0), Point("Z", 1800, "num", 5)>>
    /\ last.out.scan_idx = 2
    /\ last.out.exit = "dispatched"


\* C15: a run of check_rain_forecast (a step that leaves pc and the clock alone)
\* never changes the configuration or the registrations, and changes
\* last_notification_time only when it completes a dispatch, to its own now.
C15_OnlyDispatchMutates ==
    [][ (pc' = pc /\ clock' = clock) =>
          /\ nowcast_sensor' = nowcast_sensor
          /\ door_sensors' = door_sensors
          /\ persons' = persons
          /\ args' = args
          /\ listeners' = listeners
          /\ last'.out.exit # "dispatched" =>
                last_notification_time' = last_notification_time
          /\ last'.out.exit = "dispatched" => last_notification_time' = clock ]_vars

C15_Witness ==
    /\ Evaluated
    /\ last.entity = "d1"
    /\ last.out.exit = "cooldown"
    /\ last.lnt_before = 0
    /\ last.now = 60
    /\ last_notification_time = 0

\* the place of a step in the order of check_rain_forecast
Rank(label) ==
    CASE label = "get_forecast" -> 1
      [] label = "scan" -> 2
      [] label = "get_door" -> 3
      [] label = "gate" -> 4
      [] label = "debug_log" -> 5
      [] label \in {"send", "send_failed"} -> 6
      [] label = "set_last" -> 7
      [] label = "log_error" -> 8

Steps(label) == {i \in DOMAIN last.out.trace : last.out.trace[i] = label}

\* C16: the steps of a run come in the order forecast read, scan, sensor reads,
\* cooldown gate, debug log, sends, cooldown update; sensors are read exactly in the
\* runs that found rain, and then all of them; the debug log is written once, only
\* in a run that found rain, read an open sensor and passed the gate; and a send
\* comes only after every sensor read and after the debug log.
C16_StepOrder ==
    Evaluated =>
        /\ \A i, j \in DOMAIN last.out.trace :
              i < j => Rank(last.out.trace[i]) <= Rank(last.out.trace[j])
        /\ Steps("get_door") # {} <=> last.out.rain_found
        /\ last.out.rain_found => Cardinality(Steps("get_door")) = Len(door_sensors)
        /\ Steps("debug_log") # {} =>
              /\ Cardinality(Steps("debug_log")) = 1
              /\ Qualifying
              /\ last.lnt_before = NoTime \/ last.now - last.lnt_before >= 180
        /\ Steps("send") \cup Steps("send_failed") # {} =>
              /\ Cardinality(Steps("get_door")) = Len(door_sensors)
              /\ Steps("debug_log") # {}
        /\ Cardinality(Steps("send")) = Len(last.out.sent)

C16_Witness ==
    /\ Evaluated
    /\ last.out.trace = <<"get_forecast", "scan", "get_door", "get_door", "gate",
                          "debug_log", "send", "send", "set_last">>

\* C18: every message sent carries a rain_minutes between 0 and 30, and a run that
\* sent one found rain and read some sensor as "on".
C18_MessageBounds ==
    Evaluated =>
        /\ \A i \in DOMAIN last.out.sent :
              /\ last.out.sent[i].minutes \in 0..30
              /\ last.out.sent[i].minutes = last.out.rain_minutes
        /\ last.out.sent # <<>> =>
              /\ last.out.rain_found
              /\ \E i \in DOMAIN last.out.door_states : last.out.door_states[i] = "on"
              /\ \E i \in DOMAIN last.attr.points : RainInWindow(last.attr.points[i], last.now)

C18_Witness ==
    /\ Evaluated
    /\ last.now = 59
    /\ last.out.sent = <<Message("a", 30)>>


\* the latest run found rain and an open sensor and did not fail
GoodRun == Qualifying /\ last.out.exit \in {"dispatched", "cooldown"}

Dispatched == Evaluated /\ last.out.exit = "dispatched"

Suppressed == Evaluated /\ last.out.exit = "cooldown"

\* the latest run was a run of the timer and dispatched
TimerDispatched == Dispatched /\ last.entity = NoneStr

\* C17: under the periodic timer, if from some point on every run finds rain and an
\* open sensor and nothing fails, then notifications are dispatched again and again,
\* and every run suppressed by the cooldown is followed by a dispatch made by a run
\* of the timer.
C17_TimerTickDispatches ==
    (<>[]GoodRun) => (([]<>Dispatched) /\ (Suppressed ~> TimerDispatched))

\* a run of the timer dispatches after a run was suppressed by the cooldown
C17_Witness ==
    /\ TimerDispatched
    /\ last.waiting
    /\ last.lnt_before # NoTime

====
